---------------------------- MODULE Spec2Model ----------------------------
(***************************************************************************)
(* smartshell: command normalisation (processor/normalizer.py), session    *)
(* windowing (processor/pipeline.py) and the n-gram Markov predictor       *)
(* (models/markov.py).                                                     *)
(*                                                                         *)
(* A string is a sequence of symbols.  A symbol is either one of the       *)
(* punctuation characters " ", "|", "&", ";", "-", "<", "=" or a word      *)
(* piece: a fixed non-empty run of ordinary characters ("git", "rm", ...). *)
(* No concatenation of the word pieces used here spells another one, so    *)
(* equality of symbol sequences is equality of the strings they spell.     *)
(***************************************************************************)
EXTENDS Integers, Sequences, FiniteSets, Bags, TLC

VARIABLES
    command,      \* normalize(): the raw command string passed in
    result,       \* normalize(command), once it has run
    again,        \* normalize(result), once it has run
    npc,          \* position of the normalizer run
    df,           \* the commands table as load_raw() returns it (rows by id)
    df_norm,      \* apply_normalization(df)
    pairs,        \* build_sequence_pairs(df_norm, window): a data frame
    window,       \* the sequence_length the pairs were built with
    ppc,          \* position of the pipeline run
    order,        \* MarkovPredictor.order
    transitions,  \* MarkovPredictor.transitions, in insertion order
    trained,      \* MarkovPredictor.trained
    outcome,      \* what the last predictor call returned or raised
    fed,          \* history: the bag of (key, target) train() has counted
    file,         \* the model file markov_model.pkl
    loaded,       \* what MarkovPredictor.load(file) gave
    display       \* what the last run of display_suggestion did

vars == <<command, result, again, npc, df, df_norm, pairs, window, ppc,
          order, transitions, trained, outcome, fed, file, loaded, display>>

normVars == <<command, result, again, npc>>
pipeVars == <<df, df_norm, pairs, window, ppc>>
markovVars == <<order, transitions, trained, outcome, fed>>
engineVars == <<file, loaded, display>>

----------------------------------------------------------------------------
(* Bounds of the model *)

\* longest generated raw command, in symbols
MaxLen == 4
\* most rows appended to the commands table
MaxEvents == 4
\* most records passed to train() over the life of one predictor
MaxRecords == 7

----------------------------------------------------------------------------
(* Python values *)

\* Python's None, as a value comparable with strings (no string spells it)
None == <<"\\None">>
\* a variable a step has not assigned yet
NotRun == <<"\\NotRun">>

Min(a, b) == IF a < b THEN a ELSE b

Range(xs) == {xs[i] : i \in 1..Len(xs)}

----------------------------------------------------------------------------
(* processor/normalizer.py *)

Words(S) == {<<w>> : w \in S}

KEEP_ARGS ==
    Words({"git", "docker", "systemctl", "service", "apt", "pip",
           "python3", "python", "sudo"})

STRIP_TO_BASE ==
    Words({"cd", "ls", "cat", "nano", "vim", "nvim", "code", "rm", "mv",
           "cp", "mkdir", "touch", "chmod", "chown", "find", "grep", "tail",
           "head", "less", "more"})

\* engine/cli.py keeps a shorter list; used here as the faulty variant
BLACKLIST_WithoutNoise ==
    Words({"rm", "dd", "mkfs", "shutdown", "reboot", "poweroff", "halt",
           "mkswap", "fdisk", "parted"})

BLACKLIST ==
    Words({"rm", "dd", "mkfs", "shutdown", "reboot", "poweroff", "halt",
           "mkswap", "fdisk", "parted", "history", "clear", "exit",
           "logout"})

\* \s of the regular expressions, and what str.strip()/str.split() remove
IsSpace(c) == c = " "

\* [A-Z_] : the word pieces spelled in capitals and underscores only
IsUpperName(c) == c \in {"A", "FLASK_ENV"}

RECURSIVE lstrip(_)
lstrip(s) ==
    IF s # <<>> /\ IsSpace(Head(s)) THEN lstrip(Tail(s)) ELSE s

RECURSIVE rstrip(_)
rstrip(s) ==
    IF s # <<>> /\ IsSpace(s[Len(s)])
    THEN rstrip(SubSeq(s, 1, Len(s) - 1))
    ELSE s

\* str.strip()
strip(s) == rstrip(lstrip(s))

\* the longest prefix of s none of whose symbols satisfies the separator test
RECURSIVE WordLen(_)
WordLen(s) ==
    IF s = <<>> \/ IsSpace(Head(s)) THEN 0 ELSE 1 + WordLen(Tail(s))

\* str.split(): the maximal runs of non-whitespace, in order
RECURSIVE split(_)
split(s) ==
    LET t == lstrip(s)
        n == WordLen(t)
    IN  IF t = <<>> THEN <<>>
        ELSE <<SubSeq(t, 1, n)>> \o split(SubSeq(t, n + 1, Len(t)))

\* str.split(sep) for a one-character sep: the pieces between the
\* separators, empty ones included
RECURSIVE split_on(_, _)
split_on(s, sep) ==
    IF \A i \in 1..Len(s) : s[i] # sep THEN <<s>>
    ELSE LET i == CHOOSE k \in 1..Len(s) :
                      s[k] = sep /\ \A j \in 1..(k - 1) : s[j] # sep
         IN  <<SubSeq(s, 1, i - 1)>> \o split_on(SubSeq(s, i + 1, Len(s)), sep)

\* [x for x in xs if x]
RECURSIVE Truthy(_)
Truthy(xs) ==
    IF xs = <<>> THEN <<>>
    ELSE IF Head(xs) = <<>> \/ Head(xs) = None THEN Truthy(Tail(xs))
    ELSE <<Head(xs)>> \o Truthy(Tail(xs))

split_pipeline(s) ==
    LET parts == split_on(s, "|")
    IN  Truthy([i \in 1..Len(parts) |-> strip(parts[i])])

\* number of leading whitespace symbols of s
RECURSIVE SpaceRun(_)
SpaceRun(s) ==
    IF s # <<>> /\ IsSpace(Head(s)) THEN 1 + SpaceRun(Tail(s)) ELSE 0

\* length of the operator &&, || or ; that s starts with, 0 when none
OperatorLen(s) ==
    IF Len(s) >= 2 /\ s[1] = "&" /\ s[2] = "&" THEN 2
    ELSE IF Len(s) >= 2 /\ s[1] = "|" /\ s[2] = "|" THEN 2
    ELSE IF Len(s) >= 1 /\ s[1] = ";" THEN 1
    ELSE 0

\* length of the match of \s*(?:&&|\|\||;)\s* anchored at the start of s,
\* 0 when it does not match there
MatchLen(s) ==
    LET lead == SpaceRun(s)
        rest == SubSeq(s, lead + 1, Len(s))
        op == OperatorLen(rest)
    IN  IF op = 0 THEN 0
        ELSE lead + op + SpaceRun(SubSeq(rest, op + 1, Len(rest)))

\* re.split(pattern, s): leftmost non-overlapping matches, the pieces
\* between them kept even when empty
RECURSIVE split_logicial(_)
split_logicial(s) ==
    IF \A i \in 1..Len(s) : MatchLen(SubSeq(s, i, Len(s))) = 0 THEN <<s>>
    ELSE LET i == CHOOSE k \in 1..Len(s) :
                      /\ MatchLen(SubSeq(s, k, Len(s))) > 0
                      /\ \A j \in 1..(k - 1) : MatchLen(SubSeq(s, j, Len(s))) = 0
             m == MatchLen(SubSeq(s, i, Len(s)))
         IN  <<SubSeq(s, 1, i - 1)>>
                 \o split_logicial(SubSeq(s, i + m, Len(s)))

\* sep.join(xs)
RECURSIVE join(_, _)
join(sep, xs) ==
    IF xs = <<>> THEN <<>>
    ELSE IF Len(xs) = 1 THEN xs[1]
    ELSE xs[1] \o sep \o join(sep, Tail(xs))

\* length of one NAME=value<space> group at the start of s, 0 when none
EnvGroupLen(s) ==
    LET name == CHOOSE n \in 0..Len(s) :
                    /\ \A i \in 1..n : IsUpperName(s[i])
                    /\ (n = Len(s) \/ ~IsUpperName(s[n + 1]))
        afterEq == SubSeq(s, name + 2, Len(s))
        value == WordLen(afterEq)
    IN  IF name = 0 \/ name >= Len(s) \/ s[name + 1] # "=" THEN 0
        ELSE IF value = 0 \/ value = Len(afterEq) THEN 0
        ELSE name + 1 + value + 1

\* re.sub(r'^([A-Z_]+=\S+\s)+', '', s): s without its leading run of
\* NAME=value groups
RECURSIVE re_sub_env(_)
re_sub_env(s) ==
    IF EnvGroupLen(s) = 0 THEN s
    ELSE re_sub_env(SubSeq(s, EnvGroupLen(s) + 1, Len(s)))

\* str.startswith
startswith(s, p) == Len(s) >= Len(p) /\ SubSeq(s, 1, Len(p)) = p

\* the keep-second-token return of normalize, lines 105-110
KeepSecond(base, tokens) ==
    LET second == tokens[2]
    IN  IF startswith(second, <<"-">>) \/ second = <<"-">>
           \/ startswith(second, <<"<", "<">>)
        THEN base
        ELSE base \o <<" ">> \o second

RECURSIVE normalize(_)
RECURSIVE NormalizeEach(_)

\* [normalize(seg) for seg in segments]
NormalizeEach(segments) ==
    IF segments = <<>> THEN <<>>
    ELSE <<normalize(Head(segments))>> \o NormalizeEach(Tail(segments))

normalize(raw) ==
    IF raw = <<>> \/ strip(raw) = <<>> THEN None
    ELSE
    LET cmd == strip(raw)
        \* line 82: the substitution is computed and its value dropped
        discarded == re_sub_env(cmd)
        tokens0 == split(cmd)
        shift == tokens0 # <<>> /\ tokens0[1] = <<"sudo">> /\ Len(tokens0) > 1
        base == IF shift THEN tokens0[2] ELSE tokens0[1]
        tokens == IF shift THEN Tail(tokens0) ELSE tokens0
        segments == split_pipeline(cmd)
        logical == split_logicial(cmd)
    IN  IF tokens0 = <<>> THEN None
        ELSE IF base \in BLACKLIST THEN None
        ELSE IF base \in STRIP_TO_BASE THEN base
        ELSE IF base \in KEEP_ARGS /\ Len(tokens) > 1
             THEN KeepSecond(base, tokens)
        ELSE IF Len(segments) > 1
             THEN join(<<" ", "|", " ">>, Truthy(NormalizeEach(segments)))
        ELSE IF Len(logical) > 1
             THEN join(<<" ", ";", " ">>, Truthy(NormalizeEach(logical)))
        ELSE base

----------------------------------------------------------------------------
(* The raw commands normalize() is run on *)

\* the symbols the generated commands are spelled with: one word of each
\* class of normalize (sudo, excluded, strip-to-base, keep-second-token,
\* plain capitalised word), and the punctuation the code looks at
Alphabet == {"sudo", "rm", "cd", "git", "A", "=", " ", "|", "&", ";", "-"}

\* every string of at most MaxLen symbols of the alphabet
Generated == UNION {[1..n -> Alphabet] : n \in 0..MaxLen}

KnownWords == KEEP_ARGS \cup STRIP_TO_BASE \cup BLACKLIST

\* every word the three tables name, bare, with arguments, and behind sudo
Family ==
    {pre \o w \o post :
        pre \in {<<>>, <<"sudo", " ">>},
        w \in KnownWords,
        post \in {<<>>, <<" ", "A">>, <<" ", "-", "A">>, <<" ", "A", " ", "A">>}}

SudoRmRf == <<"sudo", " ", "rm", " ", "-", "rf", " ", "/">>
RmFile == <<"rm", " ", "file.txt">>
GitAddAndCommit ==
    <<"git", " ", "add", " ", ".", " ", "&", "&", " ",
      "git", " ", "commit", " ", "-", "m", " ", "x">>
CatPipeGrep == <<"cat", " ", "file", " ", "|", " ", "grep", " ", "foo">>
FlaskEnvPython == <<"FLASK_ENV", "=", "dev", " ", "python3", " ", "app.py">>
SudoAptUpdate == <<"sudo", " ", "apt", " ", "update">>
SudoSudoLs == <<"sudo", " ", "sudo", " ", "ls">>
CdVarLog == <<"cd", " ", "/var/log">>
RmPipeDd == <<"rm", "|", "dd">>

\* the commands the documentation names
Examples ==
    {SudoRmRf, RmFile, GitAddAndCommit, CatPipeGrep, FlaskEnvPython,
     SudoAptUpdate, SudoSudoLs, CdVarLog, RmPipeDd,
     <<"clear">>,
     <<"ls", " ", "-", "la", " ", "/home">>,
     <<"python3", " ", "manage.py", " ", "runserver">>,
     <<"git", " ", "commit", " ", "-", "m", " ", "'fix", " ", "bug'">>}

Inputs == Generated \cup Family \cup Examples

----------------------------------------------------------------------------
(* Idle values of the three parts of the state *)

NormIdle ==
    /\ command = <<>>
    /\ result = NotRun
    /\ again = NotRun
    /\ npc = "idle"

PipeIdle ==
    /\ df = <<>>
    /\ df_norm = <<>>
    /\ pairs = [columns |-> {}, rows |-> <<>>]
    /\ window = 0
    /\ ppc = "idle"

MarkovIdle ==
    /\ order = 1
    /\ transitions = <<>>
    /\ trained = FALSE
    /\ outcome = [call |-> <<>>, raised |-> "", value |-> <<>>]
    /\ fed = EmptyBag

\* no model file, nothing loaded, display_suggestion not run
EngineIdle ==
    /\ file = [exists |-> FALSE, bytes |-> <<>>]
    /\ loaded = [raised |-> "", order |-> 0, transitions |-> <<>>,
                 trained |-> FALSE]
    /\ display = [call |-> <<>>, raised |-> "",
                  prediction |-> [some |-> FALSE, suggested |-> <<>>,
                                  probability |-> 0, last_command |-> <<>>],
                  shown |-> FALSE, accepted |-> FALSE]

----------------------------------------------------------------------------
(* Running normalize *)

\* result = normalize(command)
Normalize ==
    /\ npc = "start"
    /\ result' = normalize(command)
    /\ npc' = "normalized"
    /\ UNCHANGED <<command, again, pipeVars, markovVars, engineVars>>

\* again = normalize(result), for a result that is a token
Renormalize ==
    /\ npc = "normalized"
    /\ result # None
    /\ again' = normalize(result)
    /\ npc' = "renormalized"
    /\ UNCHANGED <<command, result, pipeVars, markovVars, engineVars>>

InitNormalize ==
    /\ command \in Inputs
    /\ result = NotRun
    /\ again = NotRun
    /\ npc = "start"
    /\ PipeIdle
    /\ MarkovIdle
    /\ EngineIdle

NextNormalize == Normalize \/ Renormalize

SpecNormalize == InitNormalize /\ [][NextNormalize]_vars

----------------------------------------------------------------------------
(* Claims about normalize, checked under SpecNormalize *)

\* the exclusion set as the specification lists it
ExclusionSet ==
    Words({"rm", "dd", "mkfs", "shutdown", "reboot", "poweroff", "halt",
           "mkswap", "fdisk", "parted", "history", "clear", "exit",
           "logout"})

\* the first whitespace token, or the second when the first is sudo and a
\* second exists; the empty string when there is no token
EffectiveBase(s) ==
    LET t == split(s)
    IN  IF t = <<>> THEN <<>>
        ELSE IF t[1] = <<"sudo">> /\ Len(t) > 1 THEN t[2]
        ELSE t[1]

\* whether the first token is sudo and another token follows it
HasSudoPrefix(s) ==
    LET t == split(s) IN Len(t) > 1 /\ t[1] = <<"sudo">>

\* s with its leading sudo removed
WithoutSudo(s) == SubSeq(strip(s), 2, Len(strip(s)))

\* C1: a command whose effective base is in the exclusion set normalizes to
\* excluded (None), whatever arguments follow.
C1_ExclusionAuthoritative ==
    (npc \in {"normalized", "renormalized"}
        /\ EffectiveBase(command) \in ExclusionSet)
    => result = None

\* C1 witness: "sudo rm -rf /" has been normalized, and to excluded.
C1_Witness ==
    /\ npc = "normalized"
    /\ command = SudoRmRf
    /\ EffectiveBase(command) = <<"rm">>
    /\ result = None

\* C2: normalize returns excluded or a non-empty token, never the empty
\* string, also for a compound command none of whose segments survives.
C2_NeverEmptyToken ==
    npc \in {"normalized", "renormalized"} => result # <<>>

\* C3: normalizing a token that normalize returned gives that token back.
C3_Idempotent ==
    (npc = "renormalized" /\ result # <<>>) => again = result

\* the normalized segments of a command that survive: those of the pipe
\* split when it gives more than one segment, else of the logical split
Survivors(s) ==
    IF Len(split_pipeline(s)) > 1
    THEN Truthy(NormalizeEach(split_pipeline(s)))
    ELSE Truthy(NormalizeEach(split_logicial(s)))

\* what the composition rule gives for a command that splits
Composed(s) ==
    IF Len(split_pipeline(s)) > 1
    THEN join(<<" ", "|", " ">>, Survivors(s))
    ELSE join(<<" ", ";", " ">>, Survivors(s))

\* whether s splits into more than one segment, on a pipe or on a logical
\* separator
IsCompound(s) ==
    Len(split_pipeline(s)) > 1 \/ Len(split_logicial(s)) > 1

\* C4: a command that is not excluded by its base and splits into more than
\* one segment, at least two of which survive, normalizes to its
\* individually normalized surviving segments joined by " | " or " ; ",
\* whatever class its first word is in.
C4_CompoundComposition ==
    (npc \in {"normalized", "renormalized"}
        /\ command # <<>> /\ strip(command) # <<>>
        /\ EffectiveBase(command) \notin ExclusionSet
        /\ IsCompound(strip(command))
        /\ Len(Survivors(strip(command))) > 1)
    => result = Composed(strip(command))

\* C5: a leading run of NAME=value assignments is stripped before the
\* command is classified: normalize(assignments + X) = normalize(X).
C5_EnvPrefixStripped ==
    (npc \in {"normalized", "renormalized"}
        /\ re_sub_env(strip(command)) # strip(command))
    => result = normalize(re_sub_env(strip(command)))

\* C6: sudo followed by another token is transparent: normalize gives what
\* it gives for the command without the leading sudo (stated here for the
\* commands that hold no pipe and no logical separator).
C6_SudoTransparent ==
    (npc \in {"normalized", "renormalized"}
        /\ HasSudoPrefix(command)
        /\ ~IsCompound(strip(command)))
    => result = normalize(WithoutSudo(command))

----------------------------------------------------------------------------
(* processor/pipeline.py *)

\* default number of previous commands used as context
SEQUENCE_LENGTH == 3

\* the session ids of the commands table, in the order groupby sorts them
SessionOrder == <<"s1", "s2">>
Sessions == {SessionOrder[i] : i \in 1..Len(SessionOrder)}

\* the column names prev_1, prev_2, ...
PrevColumn == <<"prev_1", "prev_2", "prev_3", "prev_4">>

\* a data frame with no row and no column: pd.DataFrame([])
EmptyFrame == [columns |-> {}, rows |-> <<>>]

\* df[df["command_norm"].notna()]: the rows whose command_norm is not None
RECURSIVE DropNa(_)
DropNa(rows) ==
    IF rows = <<>> THEN <<>>
    ELSE IF Head(rows).command_norm # None
    THEN <<Head(rows)>> \o DropNa(Tail(rows))
    ELSE DropNa(Tail(rows))

\* apply_normalization: each row gets command_norm, the rows whose
\* command_norm is None are dropped, the others keep their order.  (The
\* columns directory, exit_code, hour and day_of_week are carried along
\* unread and are left out.)
apply_normalization(table) ==
    LET normed == [i \in 1..Len(table) |->
                      [id |-> table[i].id,
                       command |-> table[i].command,
                       session_id |-> table[i].session_id,
                       command_norm |-> normalize(table[i].command)]]
    IN  DropNa(normed)

\* the faulty variant without the grouping: the window is cut from the
\* whole frame, whatever the session of its rows
Group_WholeFrame(frame, sid) ==
    IF frame # <<>> /\ frame[1].session_id = sid THEN frame ELSE <<>>

\* the group of one session_id in df.groupby("session_id"): its rows, in
\* the order of the frame
RECURSIVE Group(_, _)
Group(frame, sid) ==
    IF frame = <<>> THEN <<>>
    ELSE IF Head(frame).session_id = sid
    THEN <<Head(frame)>> \o Group(Tail(frame), sid)
    ELSE Group(Tail(frame), sid)

\* the faulty variant without the reversal of line 80: prev_1 is the
\* oldest command of the window
WindowRecord_OldestFirst(group, sid, i, sequence_length) ==
    [target |-> group[i].command_norm,
     session_id |-> sid,
     prev |-> [j \in 1..sequence_length |->
                  group[i - sequence_length + j - 1].command_norm]]

\* the record of position i (1-based; line 62's i is one less) of a group
WindowRecord(group, sid, i, sequence_length) ==
    [target |-> group[i].command_norm,
     session_id |-> sid,
     prev |-> [j \in 1..sequence_length |-> group[i - j].command_norm]]

\* the records of one group, lines 59-83
GroupRecords(group, sid, sequence_length) ==
    IF Len(group) < sequence_length + 1 THEN <<>>
    ELSE [k \in 1..(Len(group) - sequence_length) |->
             WindowRecord(group, sid, sequence_length + k, sequence_length)]

\* the records of the sessions from the n-th on, in groupby order
RECURSIVE RecordsFrom(_, _, _)
RecordsFrom(frame, n, sequence_length) ==
    IF n > Len(SessionOrder) THEN <<>>
    ELSE GroupRecords(Group(frame, SessionOrder[n]), SessionOrder[n],
                      sequence_length)
             \o RecordsFrom(frame, n + 1, sequence_length)

\* pd.DataFrame(records): the columns are the keys of the records, and a
\* frame of no record has no column
FrameOf(records, sequence_length) ==
    IF records = <<>> THEN EmptyFrame
    ELSE [columns |-> {"target", "session_id"}
                        \cup {PrevColumn[j] : j \in 1..sequence_length},
          rows |-> records]

build_sequence_pairs(frame, sequence_length) ==
    FrameOf(RecordsFrom(frame, 1, sequence_length), sequence_length)

----------------------------------------------------------------------------
(* models/markov.py *)

\* the index of target among the keys of counts, 0 when it is not one
CommandIndex(counts, target) ==
    IF \E i \in 1..Len(counts) : counts[i].command = target
    THEN CHOOSE i \in 1..Len(counts) : counts[i].command = target
    ELSE 0

\* the index of context among the keys of table, 0 when it is not one
ContextIndex(table, context) ==
    IF \E i \in 1..Len(table) : table[i].context = context
    THEN CHOOSE i \in 1..Len(table) : table[i].context = context
    ELSE 0

\* the faulty variant that assigns where the code adds: counts[target] = 1
Bump_Overwrite(counts, target) ==
    LET i == CommandIndex(counts, target)
    IN  IF i = 0 THEN Append(counts, [command |-> target, count |-> 1])
        ELSE [counts EXCEPT ![i].count = 1]

\* counts[target] += 1 on a defaultdict(int): a new target is appended
Bump(counts, target) ==
    LET i == CommandIndex(counts, target)
    IN  IF i = 0 THEN Append(counts, [command |-> target, count |-> 1])
        ELSE [counts EXCEPT ![i].count = @ + 1]

\* self.transitions[context][target] += 1: a new context is appended
Observe(table, context, target) ==
    LET i == ContextIndex(table, context)
    IN  IF i = 0
        THEN Append(table, [context |-> context,
                            counts |-> Bump(<<>>, target)])
        ELSE [table EXCEPT ![i].counts = Bump(@, target)]

\* pd.isna(row.get("prev_2")): the record has no second context slot
LacksPrev2(row) == Len(row.prev) < 2

\* the loop of train over the rows, lines 53-64
RECURSIVE TrainRows(_, _, _)
TrainRows(table, rows, ord) ==
    IF rows = <<>> THEN table
    ELSE LET row == Head(rows)
         IN  IF ord = 1
             THEN TrainRows(Observe(table, <<row.prev[1]>>, row.target),
                            Tail(rows), ord)
             ELSE IF LacksPrev2(row)
             THEN TrainRows(table, Tail(rows), ord)
             ELSE TrainRows(Observe(table, <<row.prev[2], row.prev[1]>>,
                                    row.target),
                            Tail(rows), ord)

\* what a call gave: the value returned, or the exception raised
Returned(call, v) == [call |-> call, raised |-> "", value |-> v]
Raised(call, e) == [call |-> call, raised |-> e, value |-> <<>>]
NoCall == [call |-> <<>>, raised |-> "", value |-> <<>>]

\* sum(counts.values())
RECURSIVE Total(_)
Total(counts) ==
    IF counts = <<>> THEN 0 ELSE Head(counts).count + Total(Tail(counts))

\* the faulty variant that always rounds down
Round3_Truncating(count, total) == (1000 * count) \div total

\* round(count / total, 3), in thousandths: the nearest thousandth, an exact
\* half going to the even one (an exact half needs total to be a multiple
\* of 16, and count / total is then a binary fraction for total < 80)
Round3(count, total) ==
    LET q == (1000 * count) \div total
        r == (1000 * count) % total
    IN  IF 2 * r < total THEN q
        ELSE IF 2 * r > total THEN q + 1
        ELSE IF q % 2 = 0 THEN q ELSE q + 1

\* the faulty variant that puts the last of the greatest counts first
FirstMax_LastWins(counts) ==
    CHOOSE i \in 1..Len(counts) :
        /\ \A j \in 1..Len(counts) : counts[j].count <= counts[i].count
        /\ \A j \in (i + 1)..Len(counts) : counts[j].count < counts[i].count

\* the index of the entry sorted() puts first: the first of those with the
\* greatest count
FirstMax(counts) ==
    CHOOSE i \in 1..Len(counts) :
        /\ \A j \in 1..Len(counts) : counts[j].count <= counts[i].count
        /\ \A j \in 1..(i - 1) : counts[j].count < counts[i].count

\* xs without its i-th element
RemoveAt(xs, i) == SubSeq(xs, 1, i - 1) \o SubSeq(xs, i + 1, Len(xs))

\* sorted(counts.items(), key=lambda x: x[1], reverse=True): stable, so
\* equal counts stay in insertion order
RECURSIVE Ranked(_)
Ranked(counts) ==
    IF counts = <<>> THEN <<>>
    ELSE <<counts[FirstMax(counts)]>>
             \o Ranked(RemoveAt(counts, FirstMax(counts)))

\* xs[:n]
Take(xs, n) == SubSeq(xs, 1, Min(n, Len(xs)))

\* lines 92-100 of predict, for the counts of a context that is present
Candidates(counts, top_n) ==
    LET ranked == Take(Ranked(counts), top_n)
    IN  [i \in 1..Len(ranked) |->
            [command |-> ranked[i].command,
             probability |-> Round3(ranked[i].count, Total(counts))]]

\* MarkovPredictor.predict on the predictor (isTrained, table)
predict(isTrained, table, context, top_n, call) ==
    LET i == ContextIndex(table, context)
    IN  IF ~isTrained THEN Raised(call, "TimeoutError")
        ELSE IF i = 0 THEN Returned(call, <<>>)
        ELSE Returned(call, Candidates(table[i].counts, top_n))

\* last_commands[-order:]
LastOf(xs, n) == SubSeq(xs, Len(xs) - n + 1, Len(xs))

\* MarkovPredictor.predict_from_last
predict_from_last(isTrained, table, ord, last_commands, top_n, call) ==
    IF Len(last_commands) < ord THEN Returned(call, <<>>)
    ELSE predict(isTrained, table, LastOf(last_commands, ord), top_n, call)

\* self.transitions[context] on the defaultdict, line 92: a key that is
\* missing is entered with an empty counter
GetItem(table, context) ==
    IF ContextIndex(table, context) = 0
    THEN Append(table, [context |-> context, counts |-> <<>>])
    ELSE table

\* the table after predict(context): line 89 returns for a missing key
\* before line 92 reads it
TableAfterPredict(isTrained, table, context) ==
    IF ~isTrained THEN table
    ELSE IF ContextIndex(table, context) = 0 THEN table
    ELSE GetItem(table, context)

\* the table after predict_from_last(last_commands)
TableAfterPredictFromLast(isTrained, table, ord, last_commands) ==
    IF Len(last_commands) < ord THEN table
    ELSE TableAfterPredict(isTrained, table, LastOf(last_commands, ord))

\* the lookup key of a training record for a predictor of the given order:
\* (prev_1) for order 1, (prev_2, prev_1) for order 2; <<>> when the record
\* has no second slot and the order needs one
LookupKey(row, ord) ==
    IF ord = 1 THEN <<row.prev[1]>>
    ELSE IF Len(row.prev) >= 2 THEN <<row.prev[2], row.prev[1]>>
    ELSE <<>>

\* history: the bag of (lookup key, target) of the records given to train
RECURSIVE Counted(_, _, _)
Counted(bag, rows, ord) ==
    IF rows = <<>> THEN bag
    ELSE IF LookupKey(Head(rows), ord) = <<>>
    THEN Counted(bag, Tail(rows), ord)
    ELSE Counted(bag (+) SetToBag({<<LookupKey(Head(rows), ord),
                                     Head(rows).target>>}),
                 Tail(rows), ord)

\* MarkovPredictor.train(frame) on this predictor
Train(frame) ==
    IF ~({"target", "prev_1"} \subseteq frame.columns)
    THEN /\ outcome' = Raised(<<"train">>, "ValueError")
         /\ UNCHANGED <<order, transitions, trained, fed>>
    ELSE /\ transitions' = TrainRows(transitions, frame.rows, order)
         /\ trained' = TRUE
         /\ outcome' = Returned(<<"train">>, <<>>)
         /\ fed' = Counted(fed, frame.rows, order)
         /\ UNCHANGED order

----------------------------------------------------------------------------
(* models/markov.py, persistence: pickle.dump(self, f) and pickle.load(f).
   The file is the sequence of pickle operations; an operation is a record
   of its name and its argument (<<>> when it has none). *)

Op(name, arg) == [op |-> name, arg |-> arg]

\* the operations written for the items of one counter: each next-command
\* and its count, in the order the dict holds them
RECURSIVE DumpItems(_)
DumpItems(counts) ==
    IF counts = <<>> THEN <<>>
    ELSE <<Op("STR", Head(counts).command), Op("INT", Head(counts).count)>>
             \o DumpItems(Tail(counts))

\* the faulty variant that writes a counter by count, greatest first
DumpCounts_Ranked(counts) ==
    <<Op("DEFAULTDICT", "int"), Op("MARK", <<>>)>>
        \o DumpItems(Ranked(counts)) \o <<Op("SETITEMS", <<>>)>>

\* a counter, defaultdict(int): its factory, then its items
DumpCounts(counts) ==
    <<Op("DEFAULTDICT", "int"), Op("MARK", <<>>)>>
        \o DumpItems(counts) \o <<Op("SETITEMS", <<>>)>>

\* the operations written for the entries of the table: each context tuple
\* and its counter, in the order the dict holds them
RECURSIVE DumpEntries(_)
DumpEntries(table) ==
    IF table = <<>> THEN <<>>
    ELSE <<Op("TUPLE", Head(table).context)>>
             \o DumpCounts(Head(table).counts)
             \o DumpEntries(Tail(table))

\* pickle.dump of a MarkovPredictor: the class, then the instance __dict__
\* in the order __init__ assigned it (order, transitions, trained)
dump(ord, table, isTrained) ==
    <<Op("PROTO", 4), Op("GLOBAL", "MarkovPredictor"), Op("NEWOBJ", <<>>),
      Op("MARK", <<>>),
      Op("ATTR", "order"), Op("INT", ord),
      Op("ATTR", "transitions"),
      Op("DEFAULTDICT", "_default_counter"), Op("MARK", <<>>)>>
        \o DumpEntries(table)
        \o <<Op("SETITEMS", <<>>),
             Op("ATTR", "trained"), Op("BOOL", isTrained),
             Op("SETITEMS", <<>>), Op("BUILD", <<>>), Op("STOP", <<>>)>>

\* the name of the operation at position p, "EOF" past the end
OpAt(bytes, p) == IF p >= 1 /\ p <= Len(bytes) THEN bytes[p].op ELSE "EOF"

\* whether the operations from position p on are the named ones, in turn
Expect(bytes, p, names) ==
    \A i \in 1..Len(names) : OpAt(bytes, p + i - 1) = names[i]

\* what a reader gives: the value read and the position after it, or a
\* failure
Read(v, next) == [ok |-> TRUE, value |-> v, next |-> next]
ReadFailed == [ok |-> FALSE, value |-> <<>>, next |-> 0]

\* d[key] = value on a counter: a key it holds keeps its place
SetCount(counts, key, value) ==
    IF CommandIndex(counts, key) = 0
    THEN Append(counts, [command |-> key, count |-> value])
    ELSE [counts EXCEPT ![CommandIndex(counts, key)].count = value]

\* d[key] = value on the table
SetEntry(table, key, value) ==
    IF ContextIndex(table, key) = 0
    THEN Append(table, [context |-> key, counts |-> value])
    ELSE [table EXCEPT ![ContextIndex(table, key)].counts = value]

\* the items of a counter from position p up to their SETITEMS
RECURSIVE LoadItems(_, _, _)
LoadItems(bytes, p, counts) ==
    IF OpAt(bytes, p) = "SETITEMS" THEN Read(counts, p + 1)
    ELSE IF Expect(bytes, p, <<"STR", "INT">>)
    THEN LoadItems(bytes, p + 2,
                   SetCount(counts, bytes[p].arg, bytes[p + 1].arg))
    ELSE ReadFailed

\* the entries of the table from position p up to their SETITEMS
RECURSIVE LoadEntries(_, _, _)
LoadEntries(bytes, p, table) ==
    IF OpAt(bytes, p) = "SETITEMS" THEN Read(table, p + 1)
    ELSE IF Expect(bytes, p, <<"TUPLE", "DEFAULTDICT", "MARK">>)
    THEN LET items == LoadItems(bytes, p + 3, <<>>)
         IN  IF items.ok
             THEN LoadEntries(bytes, items.next,
                              SetEntry(table, bytes[p].arg, items.value))
             ELSE ReadFailed
    ELSE ReadFailed

\* what load gave: the predictor read, or the exception raised
Loaded(ord, table, isTrained) ==
    [raised |-> "", order |-> ord, transitions |-> table,
     trained |-> isTrained]
LoadRaised(e) ==
    [raised |-> e, order |-> 0, transitions |-> <<>>, trained |-> FALSE]

\* MarkovPredictor.load: pickle.load of the file.  __init__ is not run, so
\* the order read is taken as it is.
load(bytes) ==
    IF bytes = <<>> THEN LoadRaised("EOFError")
    ELSE IF ~Expect(bytes, 1, <<"PROTO", "GLOBAL", "NEWOBJ", "MARK", "ATTR", "INT",
                           "ATTR", "DEFAULTDICT", "MARK">>)
    THEN LoadRaised("UnpicklingError")
    ELSE LET entries == LoadEntries(bytes, 10, <<>>)
         IN  IF ~entries.ok THEN LoadRaised("UnpicklingError")
             ELSE IF ~Expect(bytes, entries.next,
                             <<"ATTR", "BOOL", "SETITEMS", "BUILD", "STOP">>)
             THEN LoadRaised("UnpicklingError")
             ELSE Loaded(bytes[6].arg, entries.value,
                         bytes[entries.next + 1].arg)

\* model.save(): the file is written with the pickle of this predictor
Save ==
    /\ ppc = "predictor"
    /\ file' = [exists |-> TRUE, bytes |-> dump(order, transitions, trained)]
    /\ ppc' = "saved"
    /\ UNCHANGED <<df, df_norm, pairs, window, loaded, display, normVars,
                   markovVars>>

\* MarkovPredictor.load() of the file save() wrote
Load ==
    /\ ppc = "saved"
    /\ file.exists
    /\ loaded' = load(file.bytes)
    /\ ppc' = "loaded"
    /\ UNCHANGED <<df, df_norm, pairs, window, file, display, normVars,
                   markovVars>>

----------------------------------------------------------------------------
(* The pipeline run: commands table -> normalized rows -> training pairs ->
   trained predictor -> queries *)

GitAdd == <<"git", " ", "add">>
GitCommit == <<"git", " ", "commit">>
GitPush == <<"git", " ", "push">>
GitAddDot == <<"git", " ", "add", " ", ".">>
GitCommitM == <<"git", " ", "commit", " ", "-", "m", " ", "x">>

\* the raw commands logged in the generated tables: two that normalize to
\* different tokens and one that is excluded
LoggedCommands == {GitAddDot, GitCommitM, RmFile}

\* the single-session sequence of the documented scenario
ScenarioCommands ==
    <<GitAdd, GitCommit, GitAdd, GitCommit, GitAdd, GitPush>>

ScenarioTable ==
    [i \in 1..Len(ScenarioCommands) |->
        [id |-> i, command |-> ScenarioCommands[i], session_id |-> "s1"]]

\* the contexts and list of recent commands the queries are made with
QueryContexts == {<<GitAdd>>, <<GitCommit, GitAdd>>}
QueryLasts == {<<>>, <<GitAdd>>, <<GitCommit, GitAdd>>}
QueryTopN == {1, 3}

\* load_raw: the table holds one more row, the next id
LoadRow(cmd, sid) ==
    /\ ppc = "load"
    /\ Len(df) < MaxEvents
    /\ df' = Append(df, [id |-> Len(df) + 1, command |-> cmd,
                         session_id |-> sid])
    /\ UNCHANGED <<df_norm, pairs, window, ppc, normVars, markovVars, engineVars>>

\* df_norm = apply_normalization(df_raw)
ApplyNormalization ==
    /\ ppc = "load"
    /\ df_norm' = apply_normalization(df)
    /\ ppc' = "normalized"
    /\ UNCHANGED <<df, pairs, window, normVars, markovVars, engineVars>>

\* df_pairs = build_sequence_pairs(df_norm, sequence_length)
BuildSequencePairs(sequence_length) ==
    /\ ppc = "normalized"
    /\ pairs' = build_sequence_pairs(df_norm, sequence_length)
    /\ window' = sequence_length
    /\ ppc' = "paired"
    /\ UNCHANGED <<df, df_norm, normVars, markovVars, engineVars>>

\* model = MarkovPredictor(order)
Construct(ord) ==
    /\ ppc = "paired"
    /\ ord \in {1, 2}
    /\ order' = ord
    /\ transitions' = <<>>
    /\ trained' = FALSE
    /\ outcome' = NoCall
    /\ fed' = EmptyBag
    /\ ppc' = "constructed"
    /\ UNCHANGED <<df, df_norm, pairs, window, normVars, engineVars>>

\* model.train(df_pairs)
TrainOnPairs ==
    /\ ppc = "constructed"
    /\ Train(pairs)
    /\ ppc' = "trained"
    /\ UNCHANGED <<df, df_norm, pairs, window, normVars, engineVars>>

\* model.predict(context, top_n)
Predict(context, top_n) ==
    /\ ppc \in {"constructed", "trained", "predictor"}
    /\ outcome' = predict(trained, transitions, context, top_n,
                          <<"predict", context, top_n>>)
    /\ transitions' = TableAfterPredict(trained, transitions, context)
    /\ UNCHANGED <<order, trained, fed, pipeVars, normVars, engineVars>>

\* model.predict_from_last(last_commands, top_n)
PredictFromLast(last_commands, top_n) ==
    /\ ppc \in {"constructed", "trained", "predictor"}
    /\ outcome' = predict_from_last(trained, transitions, order,
                                    last_commands, top_n,
                                    <<"predict_from_last", last_commands,
                                      top_n>>)
    /\ transitions' = TableAfterPredictFromLast(trained, transitions, order,
                                                last_commands)
    /\ UNCHANGED <<order, trained, fed, pipeVars, normVars, engineVars>>

Init ==
    /\ NormIdle
    /\ MarkovIdle
    /\ EngineIdle
    /\ df \in {<<>>, ScenarioTable}
    /\ df_norm = <<>>
    /\ pairs = EmptyFrame
    /\ window = 0
    /\ ppc = "load"

Next ==
    \/ \E cmd \in LoggedCommands, sid \in Sessions : LoadRow(cmd, sid)
    \/ ApplyNormalization
    \/ \E n \in 1..SEQUENCE_LENGTH : BuildSequencePairs(n)
    \/ \E ord \in {1, 2} : Construct(ord)
    \/ TrainOnPairs
    \/ \E c \in QueryContexts, n \in QueryTopN : Predict(c, n)
    \/ \E l \in QueryLasts, n \in QueryTopN : PredictFromLast(l, n)

Spec == Init /\ [][Next]_vars

----------------------------------------------------------------------------
(* One predictor, trained with frames passed to train() call after call *)

\* the next-commands of the training records; the predictor never looks
\* inside a token, so a target not yet counted for a context is always the
\* first unused one of this list
TargetOrder ==
    <<GitCommit, GitPush, GitAdd, <<"ls">>, <<"cd">>, <<"make">>>>

\* the context slots of a training record: prev_1 alone, or prev_1 and prev_2
ContextSlots == {<<GitAdd>>, <<GitCommit>>, <<GitAdd, GitCommit>>}

\* the key train() files a record with these slots under, <<>> when the
\* record is skipped
KeyOf(prev, ord) ==
    IF ord = 1 THEN <<prev[1]>>
    ELSE IF Len(prev) < 2 THEN <<>>
    ELSE <<prev[2], prev[1]>>

\* the counts the table holds for a key, <<>> when it holds none
CountsOf(table, key) ==
    IF ContextIndex(table, key) = 0 THEN <<>>
    ELSE table[ContextIndex(table, key)].counts

\* the targets a record with these slots may name: those counted for its
\* key, and the first of the others
TargetsFor(prev) ==
    LET counts == CountsOf(transitions, KeyOf(prev, order))
    IN  {counts[i].command : i \in 1..Len(counts)}
            \cup (IF Len(counts) < Len(TargetOrder)
                  THEN {TargetOrder[Len(counts) + 1]} ELSE {})

\* the frames of one record
OneRowFrames ==
    {[columns |-> {"target", "session_id"}
                     \cup {PrevColumn[j] : j \in 1..Len(prev)},
      rows |-> <<[target |-> t, session_id |-> "s1", prev |-> prev]>>] :
        <<prev, t>> \in {pt \in ContextSlots \X Range(TargetOrder) :
                            pt[2] \in TargetsFor(pt[1])}}

\* a frame with the columns and no row, as df.head(0) gives
ColumnsOnlyFrame ==
    [columns |-> {"target", "session_id", "prev_1", "prev_2"}, rows |-> <<>>]

TrainingFrames == {EmptyFrame, ColumnsOnlyFrame} \cup OneRowFrames

\* the number of records the table counts
RECURSIVE Observed(_)
Observed(table) ==
    IF table = <<>> THEN 0
    ELSE Total(Head(table).counts) + Observed(Tail(table))

\* model.train(frame), for a frame made by the caller
TrainFrame(frame) ==
    /\ ppc = "predictor"
    /\ Observed(transitions) + Len(frame.rows) <= MaxRecords
    /\ Train(frame)
    /\ UNCHANGED <<pipeVars, normVars, engineVars>>

MarkovContexts == {<<GitAdd>>, <<GitCommit, GitAdd>>, <<GitPush>>}
MarkovLasts == {<<>>, <<GitAdd>>, <<GitCommit, GitAdd>>}
MarkovTopN == {1, 3, Len(TargetOrder)}

InitMarkov ==
    /\ NormIdle
    /\ df = <<>>
    /\ df_norm = <<>>
    /\ pairs = EmptyFrame
    /\ window = 0
    /\ ppc = "predictor"
    /\ order \in {1, 2}
    /\ transitions = <<>>
    /\ trained = FALSE
    /\ outcome = NoCall
    /\ fed = EmptyBag
    /\ EngineIdle

NextMarkov ==
    \/ \E frame \in TrainingFrames : TrainFrame(frame)
    \/ Save
    \/ Load
    \/ \E c \in MarkovContexts, n \in MarkovTopN : Predict(c, n)
    \/ \E l \in MarkovLasts, n \in MarkovTopN : PredictFromLast(l, n)

SpecMarkov == InitMarkov /\ [][NextMarkov]_vars

----------------------------------------------------------------------------
(* collector/logger.py, engine/predictor.py, engine/cli.py: the commands
   table is appended to by the logger, and display_suggestion reads the
   model file and the table.  (The table's file exists throughout: the
   logger creates it before it first writes.) *)

\* str.lstrip("sudo") of the first word of the logged commands: the leading
\* characters among s, u, d, o are removed
lstrip_sudo(word) ==
    IF word \in {<<"sudo">>, <<"dd">>} THEN <<>>
    ELSE IF word = <<"docker">> THEN <<"cker">>
    ELSE IF word = <<"shutdown">> THEN <<"hutdown">>
    ELSE IF word = <<"systemctl">> THEN <<"ystemctl">>
    ELSE IF word = <<"service">> THEN <<"ervice">>
    ELSE word

\* the BLACKLIST of log_command
logger_BLACKLIST ==
    Words({"rm", "dd", "mkfs", "shutdown", "reboot", "poweroff", "halt",
           "mkswap", "fdisk", "parted"})

\* the table after log_command(command, ..., session_id)
log_command(table, cmd, sid) ==
    IF cmd = <<>> \/ strip(cmd) = <<>> THEN table
    ELSE IF strip(lstrip_sudo(split(strip(cmd))[1])) \in logger_BLACKLIST
    THEN table
    ELSE Append(table, [id |-> Len(table) + 1, command |-> strip(cmd),
                        session_id |-> sid])

\* [cmd for cmd in normalized if cmd is not None]
RECURSIVE DropNone(_)
DropNone(xs) ==
    IF xs = <<>> THEN <<>>
    ELSE IF Head(xs) = None THEN DropNone(Tail(xs))
    ELSE <<Head(xs)>> \o DropNone(Tail(xs))

\* the rows the query selects: those of the session when a session_id is
\* given ("" stands for None), else all
SessionRows(table, session_id) ==
    LET OfSession(r) == r.session_id = session_id
    IN  IF session_id = "" THEN table ELSE SelectSeq(table, OfSession)

\* get_last_commands: the n rows of greatest id, oldest first, normalized,
\* those that normalize to None left out
get_last_commands(n, session_id, table) ==
    LET rows == SessionRows(table, session_id)
        last == LastOf(rows, Min(n, Len(rows)))
    IN  DropNone(NormalizeEach([i \in 1..Len(last) |-> last[i].command]))

\* what get_prediction returns: None, or the top candidate
NoPrediction ==
    [some |-> FALSE, suggested |-> <<>>, probability |-> 0,
     last_command |-> <<>>]
Prediction(top, last_command) ==
    [some |-> TRUE, suggested |-> top.command,
     probability |-> top.probability, last_command |-> last_command]

\* the element of a one-element set; {F(x) : x \in {e}} computes e once
The(S) == CHOOSE x \in S : TRUE

\* lines 73-82 of get_prediction, for what predict_from_last gave
TopOf(results, last_commands) ==
    IF results.raised # ""
    THEN [raised |-> results.raised, value |-> NoPrediction]
    ELSE IF results.value = <<>>
    THEN [raised |-> "", value |-> NoPrediction]
    ELSE [raised |-> "",
          value |-> Prediction(results.value[1],
                               last_commands[Len(last_commands)])]

\* lines 68-82 of get_prediction, for the commands get_last_commands gave
FromLast(model, last_commands) ==
    IF last_commands = <<>> THEN [raised |-> "", value |-> NoPrediction]
    ELSE The({TopOf(results, last_commands) :
                 results \in {predict_from_last(model.trained,
                                                model.transitions,
                                                model.order, last_commands,
                                                3, <<>>)}})

\* lines 65-82 of get_prediction, for what MarkovPredictor.load gave
FromModel(model, table, session_id) ==
    IF model.raised # ""
    THEN [raised |-> model.raised, value |-> NoPrediction]
    ELSE The({FromLast(model, last_commands) :
                 last_commands \in {get_last_commands(model.order,
                                                      session_id, table)}})

\* get_prediction(session_id): the exception raised ("" when none) and the
\* value returned
get_prediction(f, table, session_id) ==
    IF ~f.exists THEN [raised |-> "", value |-> NoPrediction]
    ELSE The({FromModel(model, table, session_id) :
                 model \in {load(f.bytes)}})

\* the BLACKLIST of cli.py
cli_BLACKLIST ==
    Words({"rm", "dd", "mkfs", "shutdown", "reboot", "poweroff", "halt",
           "mkswap", "fdisk", "parted"})

\* is_safe(command): "IndexError" when the command has no word
is_safe(cmd) ==
    IF split(strip(cmd)) = <<>> THEN "IndexError"
    ELSE IF split(strip(cmd))[1] \notin cli_BLACKLIST THEN "True"
    ELSE "False"

\* the confidence floor 0.30, in thousandths
CONFIDENCE_THRESHOLD == 300

\* what a run of display_suggestion did
Displayed(call, raised, prediction, shown, accepted) ==
    [call |-> call, raised |-> raised, prediction |-> prediction,
     shown |-> shown, accepted |-> accepted]

\* lines 24-83 of display_suggestion, for what get_prediction gave and what
\* is_safe says of it
Gates(call, got, safe, key) ==
    IF got.raised # ""
    THEN Displayed(call, got.raised, NoPrediction, FALSE, FALSE)
    ELSE IF ~got.value.some
    THEN Displayed(call, "", got.value, FALSE, FALSE)
    ELSE IF safe = "IndexError"
    THEN Displayed(call, "IndexError", got.value, FALSE, FALSE)
    ELSE IF safe = "False"
    THEN Displayed(call, "", got.value, FALSE, FALSE)
    ELSE IF got.value.probability < CONFIDENCE_THRESHOLD
    THEN Displayed(call, "", got.value, FALSE, FALSE)
    ELSE Displayed(call, "", got.value, TRUE, key = "enter")

\* display_suggestion(session_id), the user pressing key when asked
display_suggestion(f, table, session_id, key) ==
    The({Gates(<<"display_suggestion", session_id>>, got,
               is_safe(got.value.suggested), key) :
            got \in {get_prediction(f, table, session_id)}})

----------------------------------------------------------------------------
(* The interactive run: a model file on disk, commands logged one by one,
   display_suggestion run after any of them *)

\* a training record of one context slot, and of two
Record1(prev_1, target) ==
    [target |-> target, session_id |-> "s1", prev |-> <<prev_1>>]
Record2(prev_1, prev_2, target) ==
    [target |-> target, session_id |-> "s1", prev |-> <<prev_1, prev_2>>]

\* the predictors whose pickle the model file may hold: their order, the
\* records they were trained on, and whether train was called
SavedPredictors ==
    { \* the documented scenario: git add is followed by git commit twice
      \* and by git push once
      [order |-> 1, trained |-> TRUE,
       rows |-> <<Record1(GitAdd, GitCommit), Record1(GitAdd, GitCommit),
                  Record1(GitAdd, GitPush)>>],
      \* trained while clear was not excluded, and on a removal
      [order |-> 1, trained |-> TRUE,
       rows |-> <<Record1(GitAdd, <<"clear">>),
                  Record1(GitCommit, <<"rm">>)>>],
      \* four next-commands seen once each after git add; the empty token
      \* after git commit
      [order |-> 1, trained |-> TRUE,
       rows |-> <<Record1(GitAdd, GitCommit), Record1(GitAdd, GitPush),
                  Record1(GitAdd, <<"ls">>), Record1(GitAdd, <<"cd">>),
                  Record1(GitCommit, <<>>)>>],
      \* order 2
      [order |-> 2, trained |-> TRUE,
       rows |-> <<Record2(GitCommit, GitAdd, GitPush),
                  Record2(GitAdd, GitCommit, <<"clear">>)>>],
      \* constructed and saved, never trained
      [order |-> 1, trained |-> FALSE, rows |-> <<>>],
      [order |-> 2, trained |-> FALSE, rows |-> <<>>] }

\* the pickle of a saved predictor
PickleOf(m) == dump(m.order, TrainRows(<<>>, m.rows, m.order), m.trained)

\* pickles that no save() of this class wrote: an order of 3 and of 0
ForeignPickles ==
    {dump(ord, TrainRows(<<>>, <<Record1(GitAdd, GitCommit)>>, 1), TRUE) :
        ord \in {0, 3}}

\* the pickle of the scenario cut short: to nothing, inside the header,
\* inside a counter, after the table, and before the final STOP
TruncatedPickles ==
    LET whole == PickleOf(CHOOSE m \in SavedPredictors :
                              m.order = 1 /\ Len(m.rows) = 3)
    IN  {SubSeq(whole, 1, k) : k \in {0, 5, 13, 18, Len(whole) - 1}}

\* the states of the model file
ModelFiles ==
    {[exists |-> FALSE, bytes |-> <<>>]}
        \cup {[exists |-> TRUE, bytes |-> b] :
                 b \in {PickleOf(m) : m \in SavedPredictors}
                           \cup ForeignPickles \cup TruncatedPickles}

\* the commands the user runs
EngineCommands == {GitAddDot, GitCommitM, RmFile}

\* the session_id display_suggestion is called with
EngineSessions == {"", "s1", "s2"}

\* the key the user presses when a suggestion is shown
Keys == {"enter", "other"}

\* logger.py: log_command(cmd, ..., sid)
LogCommand(cmd, sid) ==
    /\ ppc = "engine"
    /\ Len(df) < MaxEvents
    /\ df' = log_command(df, cmd, sid)
    /\ UNCHANGED <<df_norm, pairs, window, ppc, normVars, markovVars,
                   engineVars>>

\* cli.py: display_suggestion(session_id)
DisplaySuggestion(session_id, key) ==
    /\ ppc = "engine"
    /\ display' = display_suggestion(file, df, session_id, key)
    /\ UNCHANGED <<file, loaded, pipeVars, normVars, markovVars>>

InitEngine ==
    /\ NormIdle
    /\ MarkovIdle
    /\ df = <<>>
    /\ df_norm = <<>>
    /\ pairs = EmptyFrame
    /\ window = 0
    /\ ppc = "engine"
    /\ file \in ModelFiles
    /\ loaded = LoadRaised("")
    /\ display = Displayed(<<>>, "", NoPrediction, FALSE, FALSE)

NextEngine ==
    \/ \E cmd \in EngineCommands, sid \in Sessions : LogCommand(cmd, sid)
    \/ \E sid \in EngineSessions, key \in Keys : DisplaySuggestion(sid, key)

SpecEngine == InitEngine /\ [][NextEngine]_vars

----------------------------------------------------------------------------
(* Claims about the windowing, checked under Spec *)

\* the pairs have been built from df_norm
PairsBuilt == ppc \in {"paired", "constructed", "trained"}

\* whether record r is a window of its own session: there are rows of
\* df_norm, all of session r.session_id, later ones first, whose tokens are
\* r's target, prev_1, prev_2, ... in turn
FromOwnSession(r) ==
    \E at \in [0..Len(r.prev) -> 1..Len(df_norm)] :
        /\ \A j \in 0..Len(r.prev) : df_norm[at[j]].session_id = r.session_id
        /\ \A j \in 1..Len(r.prev) : at[j] < at[j - 1]
        /\ df_norm[at[0]].command_norm = r.target
        /\ \A j \in 1..Len(r.prev) : df_norm[at[j]].command_norm = r.prev[j]

\* whether the rows of two sessions alternate somewhere in df_norm
Interleaved ==
    \E i, j, k \in 1..Len(df_norm) :
        /\ i < j /\ j < k
        /\ df_norm[i].session_id = df_norm[k].session_id
        /\ df_norm[j].session_id # df_norm[i].session_id

\* C7: every record of build_sequence_pairs has its target and all of its
\* context tokens taken from rows of the record's own session_id, also
\* when the rows of two sessions are interleaved.
C7_NoCrossSessionWindow ==
    PairsBuilt => \A i \in 1..Len(pairs.rows) : FromOwnSession(pairs.rows[i])

\* C7 witness: pairs were built from a table in which two sessions
\* interleave, and a session that is split by rows of the other one has
\* given a record.
C7_Witness ==
    /\ ppc = "paired"
    /\ Interleaved
    /\ \E n \in 1..Len(pairs.rows), i, j, k \in 1..Len(df_norm) :
          /\ i < j /\ j < k
          /\ df_norm[i].session_id = pairs.rows[n].session_id
          /\ df_norm[k].session_id = pairs.rows[n].session_id
          /\ df_norm[j].session_id # pairs.rows[n].session_id

\* the tokens retained for a session: the normalized commands of its rows
\* of the commands table, in id order, those that normalize to excluded
\* (None) left out
RetainedTokens(sid) ==
    LET OfSession(r) == r.session_id = sid
        Kept(r) == normalize(r.command) # None
        kept == SelectSeq(SelectSeq(df, OfSession), Kept)
    IN  [i \in 1..Len(kept) |-> normalize(kept[i].command)]

\* the records the windowing rule gives a session for window length L: one
\* for each position past the first L retained tokens, its target the token
\* there and prev_j the token j places before it
ExpectedRecords(sid, L) ==
    LET token == RetainedTokens(sid)
    IN  IF Len(token) <= L THEN <<>>
        ELSE [k \in 1..(Len(token) - L) |->
                 [target |-> token[L + k],
                  session_id |-> sid,
                  prev |-> [j \in 1..L |-> token[L + k - j]]]]

\* the records of the pairs that carry a session_id, in order
RecordsOf(sid) ==
    LET OfSession(r) == r.session_id = sid
    IN  SelectSeq(pairs.rows, OfSession)

\* C15: the pairs are cut from the retained events only: for every session
\* the records with its session_id are exactly the max(0, n - L) records of
\* the windowing rule over its n retained tokens, in order, with prev_1 the
\* most recent and prev_L the oldest; a session with fewer than L + 1
\* retained events gives none.  (Stated of the pairs as built; no later
\* step changes them.)
C15_WindowsOverRetained ==
    ppc = "paired"
    => /\ \A sid \in Sessions :
             /\ RecordsOf(sid) = ExpectedRecords(sid, window)
             /\ Len(RetainedTokens(sid)) < window + 1 => RecordsOf(sid) = <<>>
       /\ \A i \in 1..Len(pairs.rows) : pairs.rows[i].session_id \in Sessions
       /\ \A i \in 1..Len(df_norm) : df_norm[i].command_norm # None

\* C15 witness: pairs were built with window 1 from a table in which an
\* excluded command lies between two retained commands of one session,
\* which gives the one record that joins them, while the other session has
\* a single retained event and gives none.
C15_Witness ==
    /\ ppc = "paired"
    /\ window = 1
    /\ Len(df) = 4
    /\ Len(df_norm) = 3
    /\ \E a, b \in Sessions :
          /\ a # b
          /\ Len(RetainedTokens(a)) = 2
          /\ Len(RetainedTokens(b)) = 1
          /\ RecordsOf(b) = <<>>
          /\ Len(RecordsOf(a)) = 1
          /\ \E i, j, k \in 1..Len(df) :
                /\ i < j /\ j < k
                /\ df[i].session_id = a /\ df[j].session_id = a
                /\ df[k].session_id = a
                /\ normalize(df[j].command) = None
                /\ RecordsOf(a)[1].prev[1] = normalize(df[i].command)
                /\ RecordsOf(a)[1].target = normalize(df[k].command)

----------------------------------------------------------------------------
(* Claims about predict *)

\* the last call was predict(context, top_n) and it returned
PredictReturned ==
    /\ outcome.call # <<>>
    /\ outcome.call[1] = "predict"
    /\ outcome.raised = ""

\* the count the table holds for next-command c under the queried context
CountIn(counts, c) == counts[CommandIndex(counts, c)].count

\* whether value is what the ranking rule gives for counts and top_n: the
\* min(top_n, k) candidates of greatest count, by count descending, equal
\* counts in insertion order, each with its count over the total rounded
\* to the nearest thousandth
IsRanking(value, counts, top_n) ==
    /\ Len(value) = Min(top_n, Len(counts))
    /\ \A i \in 1..Len(value) : CommandIndex(counts, value[i].command) # 0
    /\ \A i, j \in 1..Len(value) :
          i < j =>
            \/ CountIn(counts, value[i].command)
                   > CountIn(counts, value[j].command)
            \/ /\ CountIn(counts, value[i].command)
                      = CountIn(counts, value[j].command)
               /\ CommandIndex(counts, value[i].command)
                      < CommandIndex(counts, value[j].command)
    /\ \A i \in 1..Len(value) : \A m \in 1..Len(counts) :
          (\A j \in 1..Len(value) : value[j].command # counts[m].command)
          => \/ counts[m].count < CountIn(counts, value[i].command)
             \/ /\ counts[m].count = CountIn(counts, value[i].command)
                /\ CommandIndex(counts, value[i].command) < m
    /\ \A i \in 1..Len(value) :
          LET c == CountIn(counts, value[i].command)
              d == 1000 * c - value[i].probability * Total(counts)
          IN  2 * d <= Total(counts) /\ -2 * d <= Total(counts)

\* the general part of C8: what predict returns for a key of the table
RankingRule ==
    (PredictReturned /\ trained
        /\ ContextIndex(transitions, outcome.call[2]) # 0)
    => IsRanking(outcome.value, CountsOf(transitions, outcome.call[2]),
                 outcome.call[3])

\* the scenario: an order-1 predictor trained on the pairs of the
\* documented sequence has answered predict(("git add",), 3)
ScenarioAnswered ==
    /\ df = ScenarioTable
    /\ ppc = "trained"
    /\ order = 1
    /\ trained
    /\ outcome.call = <<"predict", <<GitAdd>>, 3>>

\* C8, as stated: the ranking rule, and the scenario trained through the
\* pipeline with its default window gives git commit 0.667, git push 0.333.
C8_AsStated ==
    /\ RankingRule
    /\ (ScenarioAnswered /\ window = SEQUENCE_LENGTH)
       => outcome.value = <<[command |-> GitCommit, probability |-> 667],
                            [command |-> GitPush, probability |-> 333]>>

\* C8, amended: the ranking rule; the scenario gives git commit 0.667, git
\* push 0.333 when the pairs are built with a window of 1, and git commit
\* 0.5, git push 0.5 when they are built with the default window of 3,
\* whose first three commands are never targets.
C8_RankedPrediction ==
    /\ RankingRule
    /\ (ScenarioAnswered /\ window = 1)
       => outcome.value = <<[command |-> GitCommit, probability |-> 667],
                            [command |-> GitPush, probability |-> 333]>>
    /\ (ScenarioAnswered /\ window = SEQUENCE_LENGTH)
       => outcome.value = <<[command |-> GitCommit, probability |-> 500],
                            [command |-> GitPush, probability |-> 500]>>

\* C8 witness: the scenario, window 1, has been answered with two
\* candidates of different counts.
C8_Witness ==
    /\ ScenarioAnswered
    /\ window = 1
    /\ Len(outcome.value) = 2
    /\ outcome.value[1].probability = 667

\* the sum of the probabilities of a returned list, in thousandths
RECURSIVE SumProbability(_)
SumProbability(value) ==
    IF value = <<>> THEN 0
    ELSE Head(value).probability + SumProbability(Tail(value))

\* the last call was predict on a trained predictor, for a key of the
\* table, with top_n at least the number of its candidates
FullSetReturned ==
    /\ PredictReturned
    /\ trained
    /\ ContextIndex(transitions, outcome.call[2]) # 0
    /\ outcome.call[3] >= Len(CountsOf(transitions, outcome.call[2]))

\* C9, as stated: the rounded probabilities of the full candidate set sum
\* to 1 within 0.001.
C9_AsStated ==
    FullSetReturned
    => /\ SumProbability(outcome.value) <= 1001
       /\ SumProbability(outcome.value) >= 999

\* C9, amended: the rounded probabilities of the full candidate set of k
\* candidates sum to 1 within 0.0005 * k.
C9_SumWithinHalfPerCandidate ==
    FullSetReturned
    => /\ Len(outcome.value) = Len(CountsOf(transitions, outcome.call[2]))
       /\ 2 * (SumProbability(outcome.value) - 1000) <= Len(outcome.value)
       /\ 2 * (1000 - SumProbability(outcome.value)) <= Len(outcome.value)

\* C9 witness: a full candidate set of six has been returned and its
\* probabilities sum to 1.002.
C9_Witness ==
    /\ FullSetReturned
    /\ Len(outcome.value) = 6
    /\ SumProbability(outcome.value) = 1002

\* the last call was a prediction query
QueryMade ==
    /\ outcome.call # <<>>
    /\ outcome.call[1] \in {"predict", "predict_from_last"}

\* C10: a prediction query on a predictor that is not trained, through
\* predict or predict_from_last and for any context, raises the
\* not-trained error and returns nothing.
C10_UntrainedAlwaysRaises ==
    (QueryMade /\ ~trained) => outcome.raised = "TimeoutError"

----------------------------------------------------------------------------
(* Claims about persistence, checked under SpecMarkov *)

\* C11: the predictor load() reads from the file save() wrote has the order,
\* the trained flag and the transition table (keys, counts and insertion
\* order) of the predictor saved, and answers every predict(c, n) as it does.
C11_RoundTripLossless ==
    ppc = "loaded"
    => /\ loaded.raised = ""
       /\ loaded.order = order
       /\ loaded.trained = trained
       /\ loaded.transitions = transitions
       /\ \A c \in MarkovContexts, n \in MarkovTopN :
             predict(loaded.trained, loaded.transitions, c, n, <<>>)
                 = predict(trained, transitions, c, n, <<>>)

\* C11 witness: a trained predictor whose table holds a context with a
\* later-inserted next-command of greater count and two of equal count
\* has been saved and loaded.
C11_Witness ==
    /\ ppc = "loaded"
    /\ trained
    /\ loaded.trained
    /\ \E i \in 1..Len(loaded.transitions) :
          LET counts == loaded.transitions[i].counts
          IN  /\ Len(counts) >= 3
              /\ counts[1].count < counts[2].count
              /\ counts[1].count = counts[3].count

----------------------------------------------------------------------------
(* Claims about the transition table, checked under SpecMarkov *)

\* the count the table holds for next-command target under key, 0 when it
\* holds none
Stored(table, key, target) ==
    IF ContextIndex(table, key) = 0 THEN 0
    ELSE IF CommandIndex(CountsOf(table, key), target) = 0 THEN 0
    ELSE CountIn(CountsOf(table, key), target)

\* C14: after any train, predict and predict_from_last calls, the count
\* stored for key k and token t is the number of records with lookup key k
\* and target t over all train calls so far; every stored count is a
\* positive integer; a key is in the table iff a record with that lookup
\* key was trained on (no query adds a key or changes a count).
C14_CountsAreTrainingTotals ==
    /\ \A i \in 1..Len(transitions) :
          /\ transitions[i].counts # <<>>
          /\ \A k \in 1..Len(transitions) :
                transitions[k].context = transitions[i].context => k = i
          /\ \A j \in 1..Len(transitions[i].counts) :
                LET entry == transitions[i].counts[j]
                IN  /\ entry.count \in Nat \ {0}
                    /\ entry.count
                         = CopiesIn(<<transitions[i].context, entry.command>>,
                                    fed)
                    /\ \A k \in 1..Len(transitions[i].counts) :
                          transitions[i].counts[k].command = entry.command
                          => k = j
    /\ \A e \in BagToSet(fed) :
          Stored(transitions, e[1], e[2]) = CopiesIn(e, fed)

\* C14 witness: a record was counted onto an earlier train call's count for
\* the same key and target, a second key is in the table, and predict has
\* just answered for a context that is not a key.
C14_Witness ==
    /\ trained
    /\ Len(transitions) >= 2
    /\ \E e \in BagToSet(fed) :
          CopiesIn(e, fed) >= 2 /\ Stored(transitions, e[1], e[2]) >= 2
    /\ outcome.call # <<>>
    /\ outcome.call[1] = "predict"
    /\ outcome.raised = ""
    /\ ContextIndex(transitions, outcome.call[2]) = 0

----------------------------------------------------------------------------
(* Claims about training on the pairs, checked under Spec *)

\* no record of the frame has a context the order can use
Degenerate(frame, ord) ==
    \A i \in 1..Len(frame.rows) : LookupKey(frame.rows[i], ord) = <<>>

\* C16: train given pairs none of whose records has an order-compatible
\* context (the empty result of build_sequence_pairs when every session is
\* shorter than window + 1, or records without prev_2 for order 2) does not
\* abort: it sets trained, leaves the table empty, and every query made
\* afterwards returns the empty sequence.
C16_TrainsOnDegenerateInput ==
    (ppc = "trained" /\ Degenerate(pairs, order))
    => /\ outcome.raised = ""
       /\ trained
       /\ transitions = <<>>
       /\ QueryMade => outcome.value = <<>>

----------------------------------------------------------------------------
(* Claims about the interactive run, checked under SpecEngine *)

\* display_suggestion has run
DisplayRun == display.call # <<>>

\* C12: a suggestion is shown only if its token's base command is not in
\* the exclusion set of the Normalizer (history, clear, exit and logout
\* included) and its probability is at least the confidence floor 0.30.
C12_BothGates ==
    (DisplayRun /\ display.shown)
    => /\ EffectiveBase(display.prediction.suggested) \notin ExclusionSet
       /\ display.prediction.probability >= 300

\* the model file is one the claim names: it does not decode, or decodes to
\* a predictor whose order is not 1 or 2 or that is not trained
FaultyModelFile ==
    /\ file.exists
    /\ \/ load(file.bytes).raised # ""
       \/ load(file.bytes).order \notin {1, 2}
       \/ ~load(file.bytes).trained

\* C13: with such a model file get_prediction returns None and no error
\* reaches its caller, as when there is no model file.
C13_DegradesToNone ==
    (DisplayRun /\ FaultyModelFile)
    => /\ display.raised = ""
       /\ ~display.prediction.some
       /\ ~display.shown

=============================================================================
